---- MODULE Spec2Model ----
(***************************************************************************)
(* A model of gotank, the Go client of the IndexTank search service:       *)
(*   - the query builder (indextank/query.go) and its serialization,       *)
(*   - the batch result correlator (newBatchResults / newBulkResults),     *)
(*   - the index client (IndexClient) with its cached metadata, talking    *)
(*     to a server that answers each request with a status and a body.     *)
(*                                                                         *)
(* Go strings that are percent-encoded are sequences of one-character      *)
(* strings; strings that are only concatenated are TLA+ strings.  A        *)
(* float64 is modelled by its number of tenths (15 is 1.5).  A nil error   *)
(* is "", a nil pointer/map result is <<>> and a non-nil one is <<v>>.     *)
(***************************************************************************)
EXTENDS Integers, Sequences, FiniteSets, TLC

VARIABLES
    q,          \* the queryState of the query builder
    calls,      \* number of setter calls made on q
    latestVar,  \* history: index -> value given by the latest call naming it
    params,     \* the params map built by the last ToQueryParams()
    order,      \* the order in which the last toQueryString ranged over params
    out,        \* the string returned by ToQueryParams() since the last setter
    panicked,   \* "" or the message of the Go panic that ended the program
    exists,     \* the server: whether the index of the handle exists
    deleted,    \* history: DeleteIndex returned success and nothing created
                \* the index since
    metadata,   \* IndexClient.metadata: <<>> (nil) or <<snapshot>>
    ret,        \* what the last call on the index handle returned
    fetched     \* history: the GetMetadata calls made since the last create,
                \* update or delete, and the snapshot the first of them returned

qvars == <<q, calls, latestVar, params, order, out>>

ivars == <<exists, deleted, metadata, ret, fetched>>

vars == <<q, calls, latestVar, params, order, out, panicked, exists, deleted, metadata,
          ret, fetched>>

(***************************************************************************)
(* Bounds of the model.                                                    *)
(***************************************************************************)
MaxCalls == 2

(***************************************************************************)
(* Input domains.                                                          *)
(***************************************************************************)
QueryTexts == {<<"a">>, <<"a", " ", "&">>}
StartVals == {0, 2}
LengthVals == {5}
FunctionVals == {0, 1}
FieldLists == {<<>>, <<"a", "b">>}
VarIds == {0, 1}
Floats == {5, 15}
Ranges == {<<5, 15>>, <<0, 20>>}
VarMaps == {<<>>, (0 :> 15), (1 :> 5), (0 :> 5 @@ 1 :> 15)}
CatNames == <<"c", "d">>
CatFilterMaps == {<<>>, ("c" :> <<"x">>), ("c" :> <<"y", "x">>),
                  ("c" :> <<"x">> @@ "d" :> <<"y">>)}

(***************************************************************************)
(* strconv, fmt, strings, net/url and encoding/json as the code uses them. *)
(***************************************************************************)
Digits == <<"0", "1", "2", "3", "4", "5", "6", "7", "8", "9">>

RECURSIVE NatChars(_)
NatChars(n) ==
    IF n < 10 THEN <<Digits[n + 1]>>
    ELSE NatChars(n \div 10) \o <<Digits[(n % 10) + 1]>>

\* strconv.Itoa, as characters
ItoaChars(n) == IF n < 0 THEN <<"-">> \o NatChars(-n) ELSE NatChars(n)

RECURSIVE Concat(_)
Concat(cs) == IF cs = <<>> THEN "" ELSE Head(cs) \o Concat(Tail(cs))

\* strconv.Itoa
Itoa(n) == Concat(ItoaChars(n))

Abs(t) == IF t < 0 THEN -t ELSE t

Sign(t) == IF t < 0 THEN <<"-">> ELSE <<>>

\* strconv.FormatFloat(v, 'g', -1, 64): the shortest decimal that round-trips
FormatFloat(t) ==
    Sign(t) \o NatChars(Abs(t) \div 10)
        \o (IF Abs(t) % 10 = 0 THEN <<>> ELSE <<".", Digits[(Abs(t) % 10) + 1]>>)

\* fmt.Sprintf("%f", v): fixed point, six decimals
Sprintf_f(t) ==
    Sign(t) \o NatChars(Abs(t) \div 10)
        \o <<".", Digits[(Abs(t) % 10) + 1], "0", "0", "0", "0", "0">>

RECURSIVE Join(_, _)
\* strings.Join over lists of character sequences
Join(ss, sep) ==
    IF ss = <<>> THEN <<>>
    ELSE IF Len(ss) = 1 THEN Head(ss)
    ELSE Head(ss) \o sep \o Join(Tail(ss), sep)

Field(name) == <<name>>

RECURSIVE Fields(_)
Fields(names) ==
    IF names = <<>> THEN <<>> ELSE <<Field(Head(names))>> \o Fields(Tail(names))

Unreserved == {"a", "b", "c", "d", "x", "y", "-", "_", ".", "~"}
                  \cup {Digits[i] : i \in 1..10}

\* net/url shouldEscape + escape in encodeQueryComponent mode, per character
EscapeChar(c) ==
    IF c \in Unreserved THEN c
    ELSE CASE c = " " -> "+"
           [] c = "&" -> "%26"
           [] c = "," -> "%2C"
           [] c = ":" -> "%3A"
           [] c = "*" -> "%2A"
           [] c = "{" -> "%7B"
           [] c = "}" -> "%7D"
           [] c = "[" -> "%5B"
           [] c = "]" -> "%5D"
           [] c = "\"" -> "%22"

RECURSIVE QueryEscape(_)
\* url.QueryEscape
QueryEscape(s) ==
    IF s = <<>> THEN "" ELSE EscapeChar(Head(s)) \o QueryEscape(Tail(s))

JsonString(s) == <<"\"">> \o s \o <<"\"">>

RECURSIVE JsonStrings(_)
JsonStrings(vs) ==
    IF vs = <<>> THEN <<>>
    ELSE <<JsonString(Field(Head(vs)))>> \o JsonStrings(Tail(vs))

RECURSIVE JsonMembers(_, _)
JsonMembers(m, names) ==
    IF names = <<>> THEN <<>>
    ELSE (IF Head(names) \in DOMAIN m
          THEN <<JsonString(Field(Head(names))) \o <<":", "[">>
                   \o Join(JsonStrings(m[Head(names)]), <<",">>) \o <<"]">>>>
          ELSE <<>>) \o JsonMembers(m, Tail(names))

\* json.Marshal of a map[string][]string: an object, keys sorted
JsonMarshal(m) == <<"{">> \o Join(JsonMembers(m, CatNames), <<",">>) \o <<"}">>

(***************************************************************************)
(* The query builder.                                                      *)
(***************************************************************************)
\* QueryForString
QueryForString(s) ==
    [queryString |-> s, start |-> 0, length |-> 10, scoringFunction |-> 0,
     fetchFields |-> <<>>, snippetFields |-> <<>>,
     queryVariables |-> <<>>, queryVariablesNil |-> FALSE,
     fetchCategories |-> FALSE, fetchVariables |-> FALSE,
     docvarFilters |-> <<>>, functionFilters |-> <<>>,
     categoryFilters |-> <<>>]

\* the Go map m with m[k] = v executed
MapSet(m, k, v) == [x \in DOMAIN m \cup {k} |-> IF x = k THEN v ELSE m[x]]

\* the Go map m after "for k, v := range n { m[k] = v }"
MapPutAll(m, n) ==
    [x \in DOMAIN m \cup DOMAIN n |-> IF x \in DOMAIN n THEN n[x] ELSE m[x]]

RECURSIVE formatRangeParam(_, _)
\* formatRangeParam: the loop over ranges, started with the empty map.  The
\* totalValue of the if statement is a new variable of the if's own scope, so
\* the totalValue stored in params[k] is always newValue.
formatRangeParam(ranges, acc) ==
    IF ranges = <<>> THEN acc
    ELSE LET v == Head(ranges)
             k == Itoa(v.id)
             newValue == FormatFloat(v.floor) \o <<":">> \o FormatFloat(v.ceil)
             totalValue == newValue
         IN formatRangeParam(Tail(ranges), MapSet(acc, k, totalValue))

Prefixed(prefix, m) ==
    LET keys == {prefix \o k : k \in DOMAIN m}
    IN [pk \in keys |-> m[CHOOSE k \in DOMAIN m : prefix \o k = pk]]

\* Params with the start offset emitted when it is 0 as well
ParamsStartAlways(s) ==
    LET base == ("q" :> s.queryString) @@ ("len" :> ItoaChars(s.length))
        pStart == IF s.start >= 0 THEN ("start" :> ItoaChars(s.start)) ELSE <<>>
        pFunction == IF s.scoringFunction > 0
                     THEN ("function" :> ItoaChars(s.scoringFunction)) ELSE <<>>
        pSnippet == IF Len(s.snippetFields) > 0
                    THEN ("snippet" :> Join(Fields(s.snippetFields), <<",">>))
                    ELSE <<>>
        pFetch == IF Len(s.fetchFields) > 0
                  THEN ("fetch" :> Join(Fields(s.fetchFields), <<",">>))
                  ELSE <<>>
        pVars == [pk \in {"var" \o Itoa(i) : i \in DOMAIN s.queryVariables} |->
                     Sprintf_f(s.queryVariables[
                         CHOOSE i \in DOMAIN s.queryVariables : "var" \o Itoa(i) = pk])]
        pFetchVars == IF s.fetchVariables THEN ("fetch_variables" :> <<"*">>)
                      ELSE <<>>
        pFetchCats == IF s.fetchCategories THEN ("fetch_categories" :> <<"*">>)
                      ELSE <<>>
        pCats == IF DOMAIN s.categoryFilters # {}
                 THEN ("category_filters" :> JsonMarshal(s.categoryFilters))
                 ELSE <<>>
        pDocvar == IF Len(s.docvarFilters) > 0
                   THEN Prefixed("filter_docvar",
                                 formatRangeParam(s.docvarFilters, <<>>))
                   ELSE <<>>
        pFunc == IF Len(s.functionFilters) > 0
                 THEN Prefixed("filter_function",
                               formatRangeParam(s.functionFilters, <<>>))
                 ELSE <<>>
    IN base @@ pStart @@ pFunction @@ pSnippet @@ pFetch @@ pVars
         @@ pFetchVars @@ pFetchCats @@ pCats @@ pDocvar @@ pFunc

\* the params map of ToQueryParams, as it stands when toQueryString is called
Params(s) ==
    LET base == ("q" :> s.queryString) @@ ("len" :> ItoaChars(s.length))
        pStart == IF s.start > 0 THEN ("start" :> ItoaChars(s.start)) ELSE <<>>
        pFunction == IF s.scoringFunction > 0
                     THEN ("function" :> ItoaChars(s.scoringFunction)) ELSE <<>>
        pSnippet == IF Len(s.snippetFields) > 0
                    THEN ("snippet" :> Join(Fields(s.snippetFields), <<",">>))
                    ELSE <<>>
        pFetch == IF Len(s.fetchFields) > 0
                  THEN ("fetch" :> Join(Fields(s.fetchFields), <<",">>))
                  ELSE <<>>
        pVars == [pk \in {"var" \o Itoa(i) : i \in DOMAIN s.queryVariables} |->
                     Sprintf_f(s.queryVariables[
                         CHOOSE i \in DOMAIN s.queryVariables : "var" \o Itoa(i) = pk])]
        pFetchVars == IF s.fetchVariables THEN ("fetch_variables" :> <<"*">>)
                      ELSE <<>>
        pFetchCats == IF s.fetchCategories THEN ("fetch_categories" :> <<"*">>)
                      ELSE <<>>
        pCats == IF DOMAIN s.categoryFilters # {}
                 THEN ("category_filters" :> JsonMarshal(s.categoryFilters))
                 ELSE <<>>
        pDocvar == IF Len(s.docvarFilters) > 0
                   THEN Prefixed("filter_docvar",
                                 formatRangeParam(s.docvarFilters, <<>>))
                   ELSE <<>>
        pFunc == IF Len(s.functionFilters) > 0
                 THEN Prefixed("filter_function",
                               formatRangeParam(s.functionFilters, <<>>))
                 ELSE <<>>
    IN base @@ pStart @@ pFunction @@ pSnippet @@ pFetch @@ pVars
         @@ pFetchVars @@ pFetchCats @@ pCats @@ pDocvar @@ pFunc

RECURSIVE Orders(_)
\* the orders in which a Go range statement may visit the keys of a map
Orders(S) ==
    IF S = {} THEN {<<>>}
    ELSE UNION {{<<k>> \o r : r \in Orders(S \ {k})} : k \in S}

RECURSIVE DropLast(_)
\* s[0:len(s)-1] of a string that ends in "&"
DropLast(pairs) ==
    IF Len(pairs) = 1 THEN Head(pairs)
    ELSE Head(pairs) \o "&" \o DropLast(Tail(pairs))

\* toQueryString over a non-empty map visited in the order ks: each
\* k=escape(v) followed by "&", then the last "&" cut off
toQueryString(m, ks) ==
    DropLast([i \in 1..Len(ks) |-> ks[i] \o "=" \o QueryEscape(m[ks[i]])])

(***************************************************************************)
(* The server, as the client's comments describe its answers                *)
(* (CreateIndexWithOptions, DeleteIndex), and the HTTP layer.              *)
(***************************************************************************)
MaxBatch == 2

\* the largest UTF-8 byte length of a document id
MaxDocIdBytes == 1024

\* len(docid) in bytes of the document ids used: a short one, one of the
\* largest length allowed and one a byte longer
IdBytes == ("d1" :> 2) @@ ("d2" :> MaxDocIdBytes) @@ ("d3" :> MaxDocIdBytes + 1)

DocIds == DOMAIN IdBytes

\* the ids a batch is made of: AddDocuments takes the short and the oversized
\* id, DeleteDocuments the two ids that can be in the index
BatchAddIds == {"d1", "d3"}

BatchDeleteIds == {"d1", "d2"}

\* metadata objects the server may report for the index
Objects == {[status |-> "LIVE", started |-> TRUE, size |-> 3],
            [status |-> "STARTING", started |-> FALSE, size |-> 0]}

\* the per-item outcome objects of a batch response body
Outcomes == {[flag |-> TRUE, error |-> ""], [flag |-> FALSE, error |-> "bad doc"]}

SeqsUpTo(S, n) == UNION {[1..k -> S] : k \in 0..n}

ConnErr == "connection refused"

UnmarshalErr == "invalid JSON"

Body(kind, obj, items) == [kind |-> kind, obj |-> obj, items |-> items]

NoObject == [status |-> "", started |-> FALSE, size |-> 0]

EmptyBody == Body("empty", NoObject, <<>>)

TextBody == Body("text", NoObject, <<>>)

\* the text of a body that is not JSON
BodyText == "Invalid request"

ObjectBodies == {Body("object", o, <<>>) : o \in Objects}

ArrayBodies == {Body("array", NoObject, items) : items \in SeqsUpTo(Outcomes, MaxBatch + 1)}

\* http.Client.Do returned an error and a nil response
Failure == [fail |-> TRUE, status |-> 0, body |-> EmptyBody]

\* resp.Status
Status(code) ==
    CASE code = 200 -> "200 OK"
      [] code = 201 -> "201 Created"
      [] code = 204 -> "204 No Content"
      [] code = 400 -> "400 Bad Request"
      [] code = 404 -> "404 Not Found"
      [] code = 409 -> "409 Conflict"
      [] code = 500 -> "500 Internal Server Error"
      [] OTHER -> Itoa(code)

\* the statuses the server answers a request with: "put" is a PUT of the
\* index URL (201 if created, 204 if already existed, 409 if too many
\* indexes), "delete" a DELETE of it (200 if OK, 204 if no index existed),
\* "scoped" any other request under the index URL (404 when it is missing)
Statuses(kind, ex) ==
    CASE kind = "put" -> IF ex THEN {204, 500} ELSE {201, 409, 400, 500}
      [] kind = "delete" -> IF ex THEN {200, 500} ELSE {204}
      [] OTHER -> IF ex THEN {200, 204, 400, 500} ELSE {404}

\* the bodies an answer of this status may carry: none with 204 No Content
Bodies(code, arrays) ==
    IF code = 204 THEN {EmptyBody}
    ELSE IF code \div 100 = 2
    THEN {EmptyBody, TextBody} \cup ObjectBodies \cup arrays
    ELSE {EmptyBody, TextBody}

\* what request() may return for a request of this kind
Responses(kind, ex, arrays) ==
    {Failure} \cup UNION {{[fail |-> FALSE, status |-> code, body |-> b] :
                               b \in Bodies(code, arrays)} :
                             code \in Statuses(kind, ex)}

NoArrays == {Body("array", NoObject, <<>>)}

\* the index on the server after it answered resp to a request of this kind
ServerAfter(kind, resp, ex) ==
    IF resp.fail THEN ex
    ELSE IF kind = "put" /\ resp.status = 201 THEN TRUE
    ELSE IF kind = "delete" /\ resp.status = 200 THEN FALSE
    ELSE ex

\* isOk
isOk(status) == status \div 100 = 2

(***************************************************************************)
(* doRequest and the batch result correlator.                              *)
(***************************************************************************)
NilDeref == "invalid memory address or nil pointer dereference"

BadAssert == "interface conversion: interface {} is not map[string]interface {}"

\* doRequest: [val, err, panic].  The deferred resp.Body.Close() dereferences
\* a nil resp; the type assertion panics on anything but a JSON object.
doRequest(resp) ==
    IF resp.fail THEN [val |-> <<>>, err |-> "", panic |-> NilDeref]
    ELSE IF resp.status = 404
    THEN [val |-> <<>>, err |-> "Index does not exist", panic |-> ""]
    ELSE IF resp.status = 204
    THEN [val |-> <<>>, err |-> "Index Already Exists " \o Itoa(resp.status),
          panic |-> ""]
    ELSE IF resp.status >= 400
    THEN [val |-> <<>>, err |-> "HTTP response " \o Itoa(resp.status), panic |-> ""]
    ELSE IF resp.body.kind = "empty"
    THEN [val |-> <<>>, err |-> "", panic |-> ""]
    ELSE IF resp.body.kind = "object"
    THEN [val |-> <<resp.body.obj>>, err |-> "", panic |-> ""]
    ELSE [val |-> <<>>, err |-> "", panic |-> BadAssert]

\* refreshMetadata
refreshMetadata(resp) == doRequest(resp)

\* json.Unmarshal(body, &r) for r a slice of addResult / deleteResult
UnmarshalList(body) ==
    IF body.kind = "array" THEN [r |-> body.items, err |-> ""]
    ELSE [r |-> <<>>, err |-> UnmarshalErr]

RECURSIVE BatchLoopFailedFirst(_, _, _, _)
\* BatchLoop with each failed element put in front of failed
BatchLoopFailedFirst(elements, r, i, acc) ==
    IF i > Len(r) THEN acc
    ELSE LET v == r[i]
             acc1 == [acc EXCEPT !.results = Append(@, v.flag)]
             acc2 == IF ~v.flag
                     THEN [acc1 EXCEPT !.hasErrors = TRUE,
                                       !.failed = <<elements[i]>> \o @,
                                       !.errors = MapSet(@, i - 1, v.error)]
                     ELSE acc1
         IN BatchLoopFailedFirst(elements, r, i + 1, acc2)

RECURSIVE BatchLoopAllErrors(_, _, _, _)
\* BatchLoop with errors[i] stored for every outcome
BatchLoopAllErrors(elements, r, i, acc) ==
    IF i > Len(r) THEN acc
    ELSE LET v == r[i]
             acc1 == [acc EXCEPT !.results = Append(@, v.flag),
                                 !.errors = MapSet(@, i - 1, v.error)]
             acc2 == IF ~v.flag
                     THEN [acc1 EXCEPT !.hasErrors = TRUE,
                                       !.failed = Append(@, elements[i])]
                     ELSE acc1
         IN BatchLoopAllErrors(elements, r, i + 1, acc2)

RECURSIVE BatchLoop(_, _, _, _)
\* the loop "for i, v := range r" of newBatchResults and newBulkResults, with
\* i counted from 1; acc holds errorFlag, results, errors and failed
BatchLoop(elements, r, i, acc) ==
    IF i > Len(r) THEN acc
    ELSE LET v == r[i]
             acc1 == [acc EXCEPT !.results = Append(@, v.flag)]
             acc2 == IF ~v.flag
                     THEN [acc1 EXCEPT !.hasErrors = TRUE,
                                       !.failed = Append(@, elements[i]),
                                       !.errors = MapSet(@, i - 1, v.error)]
                     ELSE acc1
         IN BatchLoop(elements, r, i + 1, acc2)

NoResults == [hasErrors |-> FALSE, results |-> <<>>, errors |-> <<>>,
              failed |-> <<>>, elements |-> <<>>]

BatchPanic == "Something is wrong, len(documents) != len(r) in newBatchResults"

BulkPanic == "Something is wrong, len(documentIds) != len(r) in newBulkResults"

\* newBatchResults: [panic, obj]
newBatchResults(documents, r) ==
    IF Len(documents) # Len(r) THEN [panic |-> BatchPanic, obj |-> NoResults]
    ELSE [panic |-> "",
          obj |-> BatchLoop(documents, r, 1, [NoResults EXCEPT !.elements = documents])]

\* newBulkResults: [panic, obj]
newBulkResults(documentIds, r) ==
    IF Len(documentIds) # Len(r) THEN [panic |-> BulkPanic, obj |-> NoResults]
    ELSE [panic |-> "",
          obj |-> BatchLoop(documentIds, r, 1, [NoResults EXCEPT !.elements = documentIds])]

\* addResults / deleteResults accessors, positions counted from 0
HasErrors(res) == res.hasErrors

GetResult(res, i) == res.results[i + 1]

GetDocument(res, i) == res.elements[i + 1]

GetErrorMessage(res, i) ==
    IF i \in DOMAIN res.errors THEN [val |-> res.errors[i], ok |-> TRUE]
    ELSE [val |-> "", ok |-> FALSE]

GetFailedDocuments(res) == res.failed

(***************************************************************************)
(* The index client.  ret records the last call: its name, the status of   *)
(* the response to its own request (0 if none), the error and value it     *)
(* returned, the requests it issued, the responses it left open, and the   *)
(* batch it submitted with the outcomes the server answered.               *)
(***************************************************************************)
Ret(op, status, err, val, nreq, open) ==
    [op |-> op, status |-> status, err |-> err, val |-> val, nreq |-> nreq,
     open |-> open, arg |-> <<>>, body |-> EmptyBody]

\* no call made yet on the index handle
NoCall == Ret("", 0, "", <<>>, 0, 0)

Running == panicked = ""

Unexpected(resp) ==
    "Unexpected " \o Itoa(resp.status) \o " error: " \o Status(resp.status)

\* what a call did: what it returned, the panic that ended it ("" if none)
\* and the handle's metadata after it
Done(r, panic, meta) == [ret |-> r, panic |-> panic, metadata |-> meta]

\* d with the body of the answer recorded in what the call returned
Answer(d, resp) == [d EXCEPT !.ret.body = resp.body]

\* GetMetadata: fetches only when nothing is cached
GetMetadataResult(meta, resp) ==
    IF meta = <<>>
    THEN LET d == refreshMetadata(resp)
         IN [metadata |-> IF d.panic = "" THEN d.val ELSE meta, val |-> d.val,
             err |-> d.err, panic |-> d.panic, nreq |-> 1]
    ELSE [metadata |-> meta, val |-> meta, err |-> "", panic |-> "", nreq |-> 0]

\* the error CreateIndexWithOptions returns for the status of the answer
CreateError(resp) ==
    CASE resp.status = 201 -> ""
      [] resp.status = 204 -> "Index already exists"
      [] resp.status = 409 -> "Maximum indexes limit reached for this account"
      [] OTHER -> "Unexpected error, HTTP status " \o Itoa(resp.status) \o ": "
                    \o Status(resp.status)

\* CreateIndexWithOptions (CreateIndex calls it with nil options)
CreateIndexWithOptionsResult(meta, resp, resp2) ==
    IF resp.fail
    THEN Done(Ret("CreateIndexWithOptions", 0, ConnErr, <<>>, 1, 0), "", meta)
    ELSE IF resp.status = 201
    THEN LET g == GetMetadataResult(meta, resp2)
         IN Done(Ret("CreateIndexWithOptions", resp.status, CreateError(resp), <<>>,
                     1 + g.nreq, 0), g.panic, g.metadata)
    ELSE Done(Ret("CreateIndexWithOptions", resp.status, CreateError(resp), <<>>, 1, 0),
              "", meta)

\* UpdateIndex: resp.StatusCode is read even when resp is nil; err is the
\* error of request(), nil whenever there is a response
UpdateIndexResult(meta, resp, resp2) ==
    IF resp.fail THEN Done(Ret("UpdateIndex", 0, "", <<>>, 1, 0), NilDeref, meta)
    ELSE IF isOk(resp.status)
    THEN LET d == refreshMetadata(resp2)
         IN Done(Ret("UpdateIndex", resp.status, "", <<>>, 2, 0), d.panic,
                 IF d.panic = "" THEN d.val ELSE meta)
    ELSE IF resp.status = 404
    THEN Done(Ret("UpdateIndex", resp.status, "Index does not exist", <<>>, 1, 0),
              "", meta)
    ELSE Done(Ret("UpdateIndex", resp.status, "", <<>>, 1, 0), "", meta)

\* DeleteIndex: the response is dropped, its body never closed
DeleteIndexResult(meta, resp) ==
    IF resp.fail THEN Done(Ret("DeleteIndex", 0, ConnErr, <<>>, 1, 0), "", meta)
    ELSE Done(Ret("DeleteIndex", resp.status, "", <<>>, 1, 1), "", meta)

\* Exists: the fetched metadata is not kept
ExistsResult(meta, resp) ==
    LET d == refreshMetadata(resp)
    IN Answer(Done(Ret("Exists", resp.status, "", <<d.err = "">>, 1, 0), d.panic, meta),
              resp)

\* HasStarted: the cache takes whatever the fetch returned, nil included
HasStartedResult(meta, resp) ==
    LET d == refreshMetadata(resp)
        m == IF d.panic = "" THEN d.val ELSE meta
    IN Answer(Done(Ret("HasStarted", resp.status, "", <<m # <<>> /\ m[1].started>>,
                       1, 0), d.panic, m), resp)

\* Status: reads the cache only
StatusResult(meta) ==
    Done(Ret("Status", 0, "", <<IF meta # <<>> THEN meta[1].status ELSE "">>, 0, 0),
         "", meta)

\* GetSize: reads the cache only
GetSizeResult(meta) ==
    Done(Ret("GetSize", 0, "", <<IF meta # <<>> THEN meta[1].size ELSE -1>>, 0, 0),
         "", meta)

GetMetadataCall(meta, resp) ==
    LET g == GetMetadataResult(meta, resp)
        d == Done(Ret("GetMetadata", IF g.nreq = 0 THEN 0 ELSE resp.status, g.err, g.val,
                      g.nreq, 0), g.panic, g.metadata)
    IN IF g.nreq = 0 THEN d ELSE Answer(d, resp)

\* ListFunctions: the status is not looked at
ListFunctionsResult(meta, resp) ==
    Answer(IF resp.fail THEN Done(Ret("ListFunctions", 0, ConnErr, <<>>, 1, 0), "", meta)
           ELSE IF resp.body.kind = "empty"
           THEN Done(Ret("ListFunctions", resp.status, "", <<>>, 1, 0), "", meta)
           ELSE IF resp.body.kind = "object"
           THEN Done(Ret("ListFunctions", resp.status, "", <<resp.body.obj>>, 1, 0),
                     "", meta)
           ELSE Done(Ret("ListFunctions", resp.status, UnmarshalErr, <<NoObject>>, 1, 0),
                     "", meta),
           resp)

\* the common shape of the document and function mutations: 2xx is success,
\* a 400 with a body returns detail, anything else returns other
Mutation(op, meta, resp, detail, other) ==
    IF resp.fail THEN Done(Ret(op, 0, ConnErr, <<>>, 1, 0), "", meta)
    ELSE IF isOk(resp.status) THEN Done(Ret(op, resp.status, "", <<>>, 1, 0), "", meta)
    ELSE IF resp.status = 400 /\ detail # ""
    THEN Done(Ret(op, resp.status, detail, <<>>, 1, 0), "", meta)
    ELSE Done(Ret(op, resp.status, other, <<>>, 1, 0), "", meta)

\* string(body)
BodyString(resp) == IF resp.body.kind = "empty" THEN "" ELSE BodyText

AddFunctionResult(meta, resp) ==
    Mutation("AddFunction", meta, resp, BodyString(resp), Unexpected(resp))

DeleteFunctionResult(meta, resp) ==
    Mutation("DeleteFunction", meta, resp, Status(resp.status), Unexpected(resp))

\* AddDocument: the id goes into the request as given
AddDocumentResult(meta, documentId, resp) ==
    [Mutation("AddDocument", meta, resp, BodyString(resp),
              "Unexpected error adding document") EXCEPT !.ret.arg = <<documentId>>]

\* NewDocument: a Document (modelled by its Id) and a nil error, always
NewDocumentResult(meta, docid) ==
    Done([Ret("NewDocument", 0, "", <<docid>>, 0, 0) EXCEPT !.arg = <<docid>>], "", meta)

UpdateVariablesResult(meta, resp) ==
    Mutation("UpdateVariables", meta, resp, BodyString(resp),
             "Unexpected error updating variables")

DeleteDocumentResult(meta, resp) ==
    IF resp.fail THEN Done(Ret("DeleteDocument", 0, ConnErr, <<>>, 1, 0), "", meta)
    ELSE IF isOk(resp.status)
    THEN Done(Ret("DeleteDocument", resp.status, "", <<>>, 1, 0), "", meta)
    ELSE IF resp.status = 404
    THEN Done(Ret("DeleteDocument", resp.status, "Index does not exist", <<>>, 1, 0),
              "", meta)
    ELSE Done(Ret("DeleteDocument", resp.status, Unexpected(resp), <<>>, 1, 0), "", meta)

\* a Ret that also records the batch submitted and the body answered
BatchRet(op, resp, err, val, documents) ==
    [Ret(op, resp.status, err, val, 1, 0) EXCEPT !.arg = documents, !.body = resp.body]

MismatchErr(documents, r) ==
    "Something is wrong, we have " \o Itoa(Len(documents)) \o " docs and "
        \o Itoa(Len(r)) \o " results\n"

AddDocumentsResult(meta, documents, resp) ==
    IF resp.fail THEN Done(BatchRet("AddDocuments", resp, ConnErr, <<>>, documents), "", meta)
    ELSE IF isOk(resp.status)
    THEN LET u == UnmarshalList(resp.body)
             bd == newBatchResults(documents, u.r)
         IN IF u.err # ""
            THEN Done(BatchRet("AddDocuments", resp, u.err, <<>>, documents), "", meta)
            ELSE IF Len(documents) # Len(u.r)
            THEN Done(BatchRet("AddDocuments", resp, MismatchErr(documents, u.r), <<>>,
                               documents), "", meta)
            ELSE Done(BatchRet("AddDocuments", resp, "", <<bd.obj>>, documents),
                      bd.panic, meta)
    ELSE IF resp.status = 400 /\ BodyString(resp) # ""
    THEN Done(BatchRet("AddDocuments", resp, BodyString(resp), <<>>, documents), "", meta)
    ELSE Done(BatchRet("AddDocuments", resp, "Unexpected error adding documents batch",
                       <<>>, documents), "", meta)

\* DeleteDocuments: only status 200 is read as success, and the lengths are
\* compared by newBulkResults alone
DeleteDocumentsResult(meta, documentIds, resp) ==
    IF resp.fail
    THEN Done(BatchRet("DeleteDocuments", resp, ConnErr, <<>>, documentIds), "", meta)
    ELSE IF resp.status = 200
    THEN LET u == UnmarshalList(resp.body)
             bd == newBulkResults(documentIds, u.r)
         IN IF u.err # ""
            THEN Done(BatchRet("DeleteDocuments", resp, u.err, <<>>, documentIds), "", meta)
            ELSE IF bd.panic # ""
            THEN Done(BatchRet("DeleteDocuments", resp, "", <<>>, documentIds),
                      bd.panic, meta)
            ELSE Done(BatchRet("DeleteDocuments", resp, "", <<bd.obj>>, documentIds),
                      "", meta)
    ELSE IF resp.status = 404
    THEN Done(BatchRet("DeleteDocuments", resp, "Index does not exist", <<>>,
                       documentIds), "", meta)
    ELSE Done(BatchRet("DeleteDocuments", resp, Unexpected(resp), <<>>, documentIds),
              "", meta)

\* Search: doRequest on the search URL
SearchResult(meta, resp) ==
    LET d == doRequest(resp)
    IN Answer(Done(Ret("Search", resp.status, d.err, d.val, 1, 0), d.panic, meta), resp)

\* SearchWithQuery
SearchWithQueryResult(meta, resp) ==
    Answer(IF resp.fail
           THEN Done(Ret("SearchWithQuery", 0, ConnErr, <<>>, 1, 0), "", meta)
           ELSE IF isOk(resp.status)
           THEN IF resp.body.kind = "object"
                THEN Done(Ret("SearchWithQuery", resp.status, "", <<resp.body.obj>>, 1, 0),
                          "", meta)
                ELSE Done(Ret("SearchWithQuery", resp.status, UnmarshalErr, <<>>, 1, 0),
                          "", meta)
           ELSE IF resp.status = 404
           THEN Done(Ret("SearchWithQuery", resp.status, "Index does not exist", <<>>,
                         1, 0), "", meta)
           ELSE Done(Ret("SearchWithQuery", resp.status,
                         "Unexpected " \o Itoa(resp.status) \o " error: "
                             \o BodyString(resp),
                         <<>>, 1, 0), "", meta),
           resp)

(***************************************************************************)
(* The calls on one index handle.  Each call takes the answers of the      *)
(* server to the requests it issues.                                       *)
(***************************************************************************)
\* no GetMetadata call since the last create, update or delete
NoFetch == [n |-> 0, val |-> <<>>]

MutatingCalls == {"CreateIndexWithOptions", "UpdateIndex", "DeleteIndex"}

\* fetched after the call that returned r
Fetched(r) ==
    IF r.op \in MutatingCalls THEN NoFetch
    ELSE IF r.op = "GetMetadata"
    THEN IF fetched.n = 0 THEN [n |-> 1, val |-> r.val]
         ELSE [fetched EXCEPT !.n = 2]
    ELSE fetched

Apply(d, ex, del) ==
    /\ ret' = d.ret
    /\ fetched' = Fetched(d.ret)
    /\ panicked' = d.panic
    /\ metadata' = d.metadata
    /\ exists' = ex
    /\ deleted' = del
    /\ UNCHANGED qvars

\* the answers to the metadata fetch that follows a first request, when the
\* call goes on to issue it
Second(fetches, ex) == IF fetches THEN Responses("scoped", ex, NoArrays) ELSE {Failure}

CreateIndexWithOptions ==
    /\ Running
    /\ \E resp \in Responses("put", exists, NoArrays) :
         LET ex == ServerAfter("put", resp, exists)
         IN \E resp2 \in Second(~resp.fail /\ resp.status = 201 /\ metadata = <<>>, ex) :
              Apply(CreateIndexWithOptionsResult(metadata, resp, resp2), ex,
                    deleted /\ ~ex)

UpdateIndex ==
    /\ Running
    /\ \E resp \in Responses("put", exists, NoArrays) :
         LET ex == ServerAfter("put", resp, exists)
         IN \E resp2 \in Second(~resp.fail /\ isOk(resp.status), ex) :
              Apply(UpdateIndexResult(metadata, resp, resp2), ex, deleted /\ ~ex)

DeleteIndex ==
    /\ Running
    /\ \E resp \in Responses("delete", exists, NoArrays) :
         LET ex == ServerAfter("delete", resp, exists)
             d == DeleteIndexResult(metadata, resp)
         IN Apply(d, ex, d.ret.err = "" /\ ~ex)

Exists ==
    /\ Running
    /\ \E resp \in Responses("scoped", exists, NoArrays) :
         Apply(ExistsResult(metadata, resp), exists, deleted)

HasStarted ==
    /\ Running
    /\ \E resp \in Responses("scoped", exists, NoArrays) :
         Apply(HasStartedResult(metadata, resp), exists, deleted)

Status_ == Running /\ Apply(StatusResult(metadata), exists, deleted)

GetSize == Running /\ Apply(GetSizeResult(metadata), exists, deleted)

GetMetadata ==
    /\ Running
    /\ \E resp \in Second(metadata = <<>>, exists) :
         Apply(GetMetadataCall(metadata, resp), exists, deleted)

ListFunctions ==
    /\ Running
    /\ \E resp \in Responses("scoped", exists, NoArrays) :
         Apply(ListFunctionsResult(metadata, resp), exists, deleted)

AddFunction ==
    /\ Running
    /\ \E resp \in Responses("scoped", exists, NoArrays) :
         Apply(AddFunctionResult(metadata, resp), exists, deleted)

DeleteFunction ==
    /\ Running
    /\ \E resp \in Responses("scoped", exists, NoArrays) :
         Apply(DeleteFunctionResult(metadata, resp), exists, deleted)

AddDocument ==
    /\ Running
    /\ \E documentId \in DocIds, resp \in Responses("scoped", exists, NoArrays) :
         Apply(AddDocumentResult(metadata, documentId, resp), exists, deleted)

NewDocument ==
    /\ Running
    /\ \E docid \in DocIds : Apply(NewDocumentResult(metadata, docid), exists, deleted)

UpdateVariables ==
    /\ Running
    /\ \E resp \in Responses("scoped", exists, NoArrays) :
         Apply(UpdateVariablesResult(metadata, resp), exists, deleted)

DeleteDocument ==
    /\ Running
    /\ \E resp \in Responses("scoped", exists, NoArrays) :
         Apply(DeleteDocumentResult(metadata, resp), exists, deleted)

AddDocuments ==
    /\ Running
    /\ \E documents \in SeqsUpTo(BatchAddIds, MaxBatch),
          resp \in Responses("scoped", exists, ArrayBodies) :
         Apply(AddDocumentsResult(metadata, documents, resp), exists, deleted)

DeleteDocuments ==
    /\ Running
    /\ \E documentIds \in SeqsUpTo(BatchDeleteIds, MaxBatch),
          resp \in Responses("scoped", exists, ArrayBodies) :
         Apply(DeleteDocumentsResult(metadata, documentIds, resp), exists, deleted)

Search ==
    /\ Running
    /\ \E resp \in Responses("scoped", exists, NoArrays) :
         Apply(SearchResult(metadata, resp), exists, deleted)

SearchWithQuery ==
    /\ Running
    /\ \E resp \in Responses("scoped", exists, NoArrays) :
         Apply(SearchWithQueryResult(metadata, resp), exists, deleted)

\* a handle from GetIndex holds no metadata; a handle from ListIndexes holds
\* the metadata the listing reported for an existing index
Init ==
    /\ q = QueryForString(<<"a">>)
    /\ calls = 0
    /\ latestVar = <<>>
    /\ params = <<>>
    /\ order = <<>>
    /\ out = ""
    /\ panicked = ""
    /\ deleted = FALSE
    /\ ret = NoCall
    /\ fetched = NoFetch
    /\ \/ exists \in BOOLEAN /\ metadata = <<>>
       \/ exists = TRUE /\ metadata \in {<<o>> : o \in Objects}

Next ==
    \/ CreateIndexWithOptions
    \/ UpdateIndex
    \/ DeleteIndex
    \/ Exists
    \/ HasStarted
    \/ Status_
    \/ GetSize
    \/ GetMetadata
    \/ ListFunctions
    \/ AddFunction
    \/ DeleteFunction
    \/ AddDocument
    \/ NewDocument
    \/ UpdateVariables
    \/ DeleteDocument
    \/ AddDocuments
    \/ DeleteDocuments
    \/ Search
    \/ SearchWithQuery

Spec == Init /\ [][Next]_vars

(***************************************************************************)
(* The calls on one query builder.                                         *)
(***************************************************************************)
Reset(s) ==
    /\ q' = s
    /\ calls' = calls + 1
    /\ params' = <<>>
    /\ order' = <<>>
    /\ out' = ""

Setter == calls < MaxCalls /\ panicked = ""

Start ==
    /\ Setter
    /\ \E start \in StartVals : Reset([q EXCEPT !.start = start])
    /\ UNCHANGED <<latestVar, panicked, ivars>>

NumResults ==
    /\ Setter
    /\ \E length \in LengthVals : Reset([q EXCEPT !.length = length])
    /\ UNCHANGED <<latestVar, panicked, ivars>>

FetchFields ==
    /\ Setter
    /\ \E fields \in FieldLists : Reset([q EXCEPT !.fetchFields = fields])
    /\ UNCHANGED <<latestVar, panicked, ivars>>

SnippetFields ==
    /\ Setter
    /\ \E fields \in FieldLists : Reset([q EXCEPT !.snippetFields = fields])
    /\ UNCHANGED <<latestVar, panicked, ivars>>

FetchVariables ==
    /\ Setter
    /\ Reset([q EXCEPT !.fetchVariables = TRUE])
    /\ UNCHANGED <<latestVar, panicked, ivars>>

FetchCategories ==
    /\ Setter
    /\ Reset([q EXCEPT !.fetchCategories = TRUE])
    /\ UNCHANGED <<latestVar, panicked, ivars>>

ScoringFunction ==
    /\ Setter
    /\ \E function \in FunctionVals : Reset([q EXCEPT !.scoringFunction = function])
    /\ UNCHANGED <<latestVar, panicked, ivars>>

\* QueryVariables: the caller's map (nil included) becomes the builder's map
QueryVariables ==
    /\ Setter
    /\ \E variables \in VarMaps, isNil \in BOOLEAN :
         /\ isNil => variables = <<>>
         /\ Reset([q EXCEPT !.queryVariables = variables,
                            !.queryVariablesNil = isNil])
         /\ latestVar' = MapPutAll(latestVar, variables)
    /\ UNCHANGED <<panicked, ivars>>

\* QueryVariable: an assignment to an entry of a nil map panics
QueryVariable ==
    /\ Setter
    /\ \E variable \in VarIds, val \in Floats :
         /\ latestVar' = MapSet(latestVar, variable, val)
         /\ IF q.queryVariablesNil
            THEN /\ Reset(q)
                 /\ panicked' = "assignment to entry in nil map"
            ELSE /\ Reset([q EXCEPT !.queryVariables =
                                     MapSet(q.queryVariables, variable, val)])
                 /\ UNCHANGED panicked
    /\ UNCHANGED ivars

VarRange(variable, r) == [id |-> variable, floor |-> r[1], ceil |-> r[2]]

DocumentVariableFilter ==
    /\ Setter
    /\ \E variable \in VarIds, r \in Ranges :
         Reset([q EXCEPT !.docvarFilters = Append(@, VarRange(variable, r))])
    /\ UNCHANGED <<latestVar, panicked, ivars>>

FunctionFilter ==
    /\ Setter
    /\ \E variable \in VarIds, r \in Ranges :
         Reset([q EXCEPT !.functionFilters = Append(@, VarRange(variable, r))])
    /\ UNCHANGED <<latestVar, panicked, ivars>>

CategoryFilter ==
    /\ Setter
    /\ \E filters \in CatFilterMaps :
         Reset([q EXCEPT !.categoryFilters = MapPutAll(@, filters)])
    /\ UNCHANGED <<latestVar, panicked, ivars>>

\* ToQueryParams: the string built in s is discarded; the result is
\* toQueryString(params), which ranges over the map in an order Go leaves open
ToQueryParams ==
    /\ panicked = ""
    /\ params' = Params(q)
    /\ \E ks \in Orders(DOMAIN Params(q)) :
         /\ order' = ks
         /\ out' = toQueryString(Params(q), ks)
    /\ UNCHANGED <<q, calls, latestVar, panicked, ivars>>

QInit ==
    /\ q \in {QueryForString(s) : s \in QueryTexts}
    /\ calls = 0
    /\ latestVar = <<>>
    /\ params = <<>>
    /\ order = <<>>
    /\ out = ""
    /\ panicked = ""
    /\ exists = TRUE
    /\ deleted = FALSE
    /\ metadata = <<>>
    /\ ret = NoCall
    /\ fetched = NoFetch

QNext ==
    \/ Start
    \/ NumResults
    \/ FetchFields
    \/ SnippetFields
    \/ FetchVariables
    \/ FetchCategories
    \/ ScoringFunction
    \/ QueryVariables
    \/ QueryVariable
    \/ DocumentVariableFilter
    \/ FunctionFilter
    \/ CategoryFilter
    \/ ToQueryParams

QuerySpec == QInit /\ [][QNext]_vars

\* ToQueryParams() called on a builder not serialized since its last setter
FirstToQueryParams == out = "" /\ ToQueryParams

\* The builder with ToQueryParams() applied once to each query built.  It
\* reaches the states QuerySpec reaches: a repeated call only moves between
\* the serializations of the same query, which the first call already yields.
SNext ==
    \/ Start
    \/ NumResults
    \/ FetchFields
    \/ SnippetFields
    \/ FetchVariables
    \/ FetchCategories
    \/ ScoringFunction
    \/ QueryVariables
    \/ QueryVariable
    \/ DocumentVariableFilter
    \/ FunctionFilter
    \/ CategoryFilter
    \/ FirstToQueryParams

SerializeSpec == QInit /\ [][SNext]_vars

(***************************************************************************)
(* Properties.                                                             *)
(***************************************************************************)
\* the positions of the unsuccessful outcomes of r
FailedAt(r) == {i \in 1..Len(r) : ~r[i].flag}

\* the elements at the positions of P, in increasing order of position
SubSeqAt(elements, P) ==
    [k \in 1..Cardinality(P) |->
        elements[CHOOSE i \in P : Cardinality({j \in P : j <= i}) = k]]

\* the last call answered a batch of N items with a success status and a
\* well-formed array of M outcomes
BatchAnswered(op) ==
    /\ ret.op = op
    /\ ret.status # 0
    /\ isOk(ret.status)
    /\ ret.body.kind = "array"

\* C1: a batch-add of N documents answered by N outcomes returns a result
\* object whose HasErrors() is true iff some outcome has added=false and whose
\* GetFailedDocuments() is the submitted documents with added=false, in their
\* original order.
C1_BatchAddResult ==
    (BatchAnswered("AddDocuments") /\ Len(ret.body.items) = Len(ret.arg)) =>
        /\ panicked = ""
        /\ ret.err = ""
        /\ ret.val # <<>>
        /\ HasErrors(ret.val[1]) = (FailedAt(ret.body.items) # {})
        /\ GetFailedDocuments(ret.val[1]) = SubSeqAt(ret.arg, FailedAt(ret.body.items))

\* two different documents were submitted and both failed
C1_Witness ==
    /\ BatchAnswered("AddDocuments")
    /\ Len(ret.arg) = 2
    /\ ret.arg[1] # ret.arg[2]
    /\ FailedAt(ret.body.items) = {1, 2}
    /\ ret.val # <<>>

\* C2: a batch operation answered with a success status and a well-formed
\* array whose length differs from the number of submitted items returns an
\* error and no result object, and ends in no other way.
C2_LengthMismatchIsError ==
    \A op \in {"AddDocuments", "DeleteDocuments"} :
        (BatchAnswered(op) /\ Len(ret.body.items) # Len(ret.arg)) =>
            /\ panicked = ""
            /\ ret.err # ""
            /\ ret.val = <<>>

\* C3: in a batch result object built from N inputs and N outcomes, at every
\* position i of 0..N-1 GetResult(i) is the success flag of outcome i,
\* GetDocument(i)/GetDocid(i) is input i, and GetErrorMessage(i) answers
\* ok=true with the outcome's error text exactly when outcome i failed.
C3_PositionalAccessors ==
    \A op \in {"AddDocuments", "DeleteDocuments"} :
        (ret.op = op /\ panicked = "" /\ ret.val # <<>>) =>
            /\ Len(ret.body.items) = Len(ret.arg)
            /\ \A i \in 0..(Len(ret.arg) - 1) :
                 /\ GetResult(ret.val[1], i) = ret.body.items[i + 1].flag
                 /\ GetDocument(ret.val[1], i) = ret.arg[i + 1]
                 /\ GetErrorMessage(ret.val[1], i) =
                      IF ret.body.items[i + 1].flag
                      THEN [val |-> "", ok |-> FALSE]
                      ELSE [val |-> ret.body.items[i + 1].error, ok |-> TRUE]

\* a batch-delete of two ids returned a result object, the first deleted and
\* the second not
C3_Witness ==
    /\ ret.op = "DeleteDocuments"
    /\ panicked = ""
    /\ ret.val # <<>>
    /\ Len(ret.arg) = 2
    /\ FailedAt(ret.body.items) = {2}

\* C4: two consecutive calls of ToQueryParams() with no setter call in between
\* return the same string.
C4_SerializationIdempotent == [][(out # "" /\ out' # "") => out' = out]_vars

\* C5: a query made by QueryForString(t) with no setter called serializes to
\* exactly q=<percent-encoded t>&len=10.
C5_DefaultQueryString ==
    (calls = 0 /\ out # "") => out = "q=" \o QueryEscape(q.queryString) \o "&len=10"

RangeText(v) == FormatFloat(v.floor) \o <<":">> \o FormatFloat(v.ceil)

\* the ranges of the filters added for this variable, in insertion order
RangesOf(filters, variable) ==
    LET P == {i \in 1..Len(filters) : filters[i].id = variable}
    IN [k \in 1..Cardinality(P) |-> RangeText(SubSeqAt(filters, P)[k])]

Occurrences(key) == Cardinality({i \in 1..Len(order) : order[i] = key})

AllRangesEmitted(prefix, filters) ==
    \A variable \in VarIds :
        Len(RangesOf(filters, variable)) >= 2 =>
            /\ Occurrences(prefix \o Itoa(variable)) = 1
            /\ params[prefix \o Itoa(variable)] = Join(RangesOf(filters, variable), <<",">>)

\* C6: when a range filter was added two or more times for one variable index,
\* ToQueryParams() emits one filter_docvar<N> (filter_function<N>) parameter
\* whose value is all the added floor:ceil ranges joined by commas in
\* insertion order.
C6_RangesJoined ==
    out # "" =>
        /\ out = toQueryString(params, order)
        /\ AllRangesEmitted("filter_docvar", q.docvarFilters)
        /\ AllRangesEmitted("filter_function", q.functionFilters)

\* C7: after any sequence of QueryVariable and QueryVariables calls the
\* builder holds, for each index, the value of the latest call that named it,
\* and keeps every variable a later call did not name.
C7_VariablesMerge == panicked = "" /\ q.queryVariables = latestVar

\* C8: CreateIndexWithOptions returns success for 201, "Index already exists"
\* for the already-exists answer, the limit error for 409 and, for any other
\* non-2xx status, a generic failure with the status code and reason text.
C8_CreateOutcomes ==
    (ret.op = "CreateIndexWithOptions" /\ ret.status # 0) =>
        /\ panicked = ""
        /\ ret.status = 201 => ret.err = ""
        /\ ret.status = 204 => ret.err = "Index already exists"
        /\ ret.status = 409 => ret.err = "Maximum indexes limit reached for this account"
        /\ ret.status \in {400, 404, 500} =>
             ret.err = "Unexpected error, HTTP status " \o Itoa(ret.status) \o ": "
                         \o Status(ret.status)

IndexScopedCalls ==
    {"AddDocument", "AddDocuments", "UpdateVariables", "DeleteDocument",
     "DeleteDocuments", "AddFunction", "DeleteFunction", "ListFunctions",
     "UpdateIndex", "DeleteIndex", "Search", "SearchWithQuery", "GetMetadata"}

\* C9: every index-scoped call that receives status 404 returns the
\* "Index does not exist" error.
C9_NotFoundEverywhere ==
    (ret.op \in IndexScopedCalls /\ ret.status = 404) =>
        (panicked = "" /\ ret.err = "Index does not exist")

\* every request of the last call was answered by the server
Answered == ~(ret.nreq > 0 /\ ret.status = 0)

\* C10: after DeleteIndex returned success, and until the index is created
\* again, every call on the handle that reaches the server reports that the
\* index does not exist, and none answers from the metadata cached before
\* the delete.
C10_DeletedStaysDeleted ==
    (deleted /\ Answered) =>
        /\ ret.op \in (IndexScopedCalls \ {"DeleteIndex", "UpdateIndex"}) =>
             (panicked = "" /\ ret.err = "Index does not exist")
        /\ ret.op = "Status" => ret.val = <<"">>
        /\ ret.op = "GetSize" => ret.val = <<-1>>
        /\ ret.op \in {"Exists", "HasStarted"} => ret.val = <<FALSE>>

\* C11: when GetMetadata is called twice on a handle with no create, update
\* or delete in between, and the first call returned a snapshot, the second
\* call issues no request and returns the same snapshot.
C11_MetadataCached ==
    (ret.op = "GetMetadata" /\ fetched.n = 2 /\ fetched.val # <<>>) =>
        /\ panicked = ""
        /\ ret.nreq = 0
        /\ ret.err = ""
        /\ ret.val = fetched.val

\* the calls that return an error value
ErrorReturning ==
    IndexScopedCalls \cup {"CreateIndexWithOptions"}

\* the first request of the last call met a transport failure
TransportFailed == ret.nreq > 0 /\ ret.status = 0

\* C12: a transport-level failure of a call's request is returned to the
\* caller as that error; the call does not crash, does not report success
\* and does not send the request again.
C12_TransportFailureReturned ==
    /\ panicked # NilDeref
    /\ (ret.op \in ErrorReturning /\ TransportFailed) =>
         (ret.err = ConnErr /\ ret.val = <<>> /\ ret.nreq = 1)

\* the calls that decode a JSON body
JsonCalls ==
    {"GetMetadata", "Search", "ListFunctions", "SearchWithQuery", "AddDocuments",
     "DeleteDocuments"}

\* the kind of JSON value the call decodes the body into
ExpectedKind(op) ==
    IF op \in {"AddDocuments", "DeleteDocuments"} THEN "array" ELSE "object"

\* C13: when a call that expects a JSON body is answered 200 with a body that
\* is not JSON of the expected shape, it returns an error and no result; it
\* neither crashes nor returns a nil result with a nil error.
C13_MalformedIsError ==
    (ret.op \in JsonCalls /\ ret.status = 200 /\ ret.body.kind # ExpectedKind(ret.op)) =>
        /\ panicked = ""
        /\ ret.err # ""
        /\ ret.val = <<>>

\* some id of ids is longer than the largest length allowed
Oversized(ids) == \E i \in 1..Len(ids) : IdBytes[ids[i]] > MaxDocIdBytes

\* C14: NewDocument, AddDocument and AddDocuments return an error for a
\* document id of more than 1024 bytes, and AddDocument/AddDocuments send no
\* request for it; NewDocument accepts an id of at most 1024 bytes.
C14_OversizedIdRejected ==
    /\ (ret.op \in {"NewDocument", "AddDocument", "AddDocuments"} /\ Oversized(ret.arg)) =>
         (ret.err # "" /\ ret.val = <<>> /\ ret.nreq = 0)
    /\ (ret.op = "NewDocument" /\ ~Oversized(ret.arg)) =>
         (ret.err = "" /\ ret.val = ret.arg)

\* C15: every request that yields a response has the response body closed
\* by the time the call that issued it returns, on every exit path.
C15_BodiesReleased ==
    (ret.nreq > 0 /\ ret.status # 0) => ret.open = 0

\* the filters of one variable added once are emitted with FormatFloat bounds
SingleRangesShortest(prefix, filters) ==
    \A variable \in VarIds :
        Len(RangesOf(filters, variable)) = 1 =>
            /\ prefix \o Itoa(variable) \in DOMAIN params
            /\ params[prefix \o Itoa(variable)] = RangesOf(filters, variable)[1]

\* C16: in the string of ToQueryParams() each query variable is one parameter
\* var<index> whose value is the shortest decimal that round-trips (1.5 is
\* "1.5", not "1.500000"), and range bounds are formatted the same way.
C16_ShortestFloats ==
    out # "" =>
        /\ out = toQueryString(params, order)
        /\ \A i \in DOMAIN q.queryVariables :
             /\ Occurrences("var" \o Itoa(i)) = 1
             /\ params["var" \o Itoa(i)] = FormatFloat(q.queryVariables[i])
        /\ SingleRangesShortest("filter_docvar", q.docvarFilters)
        /\ SingleRangesShortest("filter_function", q.functionFilters)

\* the parameter is in the output once if cond holds and not at all otherwise
PresentIff(key, cond) == Occurrences(key) = (IF cond THEN 1 ELSE 0)

\* C17: in the output of ToQueryParams() q and len are present exactly once;
\* start iff the start offset is > 0; function iff the scoring function id is
\* > 0; snippet/fetch iff the field list is non-empty; fetch_variables and
\* fetch_categories (with value *) iff the flag was enabled; category_filters
\* iff at least one category filter was set.
C17_ParameterPresence ==
    out # "" =>
        /\ out = toQueryString(params, order)
        /\ DOMAIN params = {order[i] : i \in 1..Len(order)}
        /\ PresentIff("q", TRUE)
        /\ PresentIff("len", TRUE)
        /\ PresentIff("start", q.start > 0)
        /\ PresentIff("function", q.scoringFunction > 0)
        /\ PresentIff("snippet", q.snippetFields # <<>>)
        /\ PresentIff("fetch", q.fetchFields # <<>>)
        /\ PresentIff("fetch_variables", q.fetchVariables)
        /\ PresentIff("fetch_categories", q.fetchCategories)
        /\ q.fetchVariables => params["fetch_variables"] = <<"*">>
        /\ q.fetchCategories => params["fetch_categories"] = <<"*">>
        /\ PresentIff("category_filters", DOMAIN q.categoryFilters # {})

\* a query with a start offset and a category filter and without
\* fetch_variables was serialized
C17_Witness ==
    /\ out # ""
    /\ q.start > 0
    /\ DOMAIN q.categoryFilters # {}
    /\ ~q.fetchVariables
    /\ Occurrences("start") = 1
    /\ Occurrences("category_filters") = 1

SearchCalls == {"Search", "SearchWithQuery"}

\* C18: Search and SearchWithQuery read the answer the same way: a 2xx status
\* yields the parsed result set with a nil error, 404 the "Index does not
\* exist" error, any other status a generic failure; no 2xx status is
\* reported as an error and no call returns a nil result with a nil error.
\* (Stated for the calls that returned; a body that cannot be decoded may be
\* reported as a decoding error.)
C18_SearchUniform ==
    (ret.op \in SearchCalls /\ ret.status # 0 /\ panicked = "") =>
        /\ ~(ret.val = <<>> /\ ret.err = "")
        /\ isOk(ret.status) => ret.err \in {"", UnmarshalErr}
        /\ (isOk(ret.status) /\ ret.body.kind = "object") =>
             (ret.err = "" /\ ret.val = <<ret.body.obj>>)
        /\ ret.status = 404 => ret.err = "Index does not exist"
        /\ (~isOk(ret.status) /\ ret.status # 404) =>
             (ret.err # "" /\ ret.err # "Index does not exist" /\ ret.val = <<>>)

\* the last call fetched the metadata and the server answered 200 with a
\* metadata object
FetchSucceeded ==
    /\ ret.op \in {"GetMetadata", "Exists", "HasStarted"}
    /\ ret.nreq = 1
    /\ ret.status = 200
    /\ ret.body.kind = "object"
    /\ panicked = ""

\* C19: after a successful metadata fetch made through the handle by
\* GetMetadata, Exists or HasStarted the handle holds the snapshot the server
\* returned, and no call other than a delete leaves a handle that held a
\* snapshot without one.
C19_HandleStates ==
    [][/\ FetchSucceeded' => metadata' = <<ret'.body.obj>>
       /\ (metadata # <<>> /\ ret'.op # "DeleteIndex") => metadata' # <<>>]_vars

====
